---------------------------- MODULE Spec2Model ----------------------------
(***************************************************************************)
(* Model of the two Python scripts of image-to-tetris:                     *)
(*                                                                         *)
(*   python/download_tetris_sound_effects.py  parse_object, try_download,  *)
(*                                            main                         *)
(*   python/graph_fft.py                      compute_local_average,       *)
(*                                            test_spectral_onset          *)
(*                                                                         *)
(* Python strings are sequences of one-character strings, so that          *)
(* str.replace is computed character by character.  A JSON value is a      *)
(* record with a tag; the fields a tag does not use are empty.  A float    *)
(* sample is an integer or, after the division by 2M+1 and by the maximum, *)
(* a fraction [num, den]; den = 0 is numpy's nan (0/0).                    *)
(***************************************************************************)
EXTENDS Integers, Sequences, FiniteSets, TLC

VARIABLES
    pc,             \* position of the running script
    \* ---- download_tetris_sound_effects.py
    object,         \* parse_object's argument
    parsed,         \* parse_object's outcome: [exc, val]
    response,       \* main's response: [status, valid, doc]
    res,            \* main's res, the harvested list
    idx,            \* position of main's for loop in res (1-based)
    files,          \* the working directory: name -> bytes of the file
    calls,          \* the calls made so far, in order: [op, arg]
    cause,          \* the exception that ended the run, "" if none
    dl,             \* try_download's frame when it returned
    \* ---- graph_fft.py
    Y,              \* the compressed spectrogram: bin -> sequence of frames
    nov,            \* the raw novelty (compute_local_average's x)
    M,              \* half width of the averaging window
    local_average,  \* compute_local_average's result
    nov_norm        \* the normalized novelty

hvars == <<object, parsed, response, res, idx, files, calls, cause, dl>>
nvars == <<Y, nov, M, local_average, nov_norm>>
vars == <<pc, hvars, nvars>>

(***************************************************************************)
(* Bounds of the model.                                                    *)
(***************************************************************************)
MaxNodes == 4       \* nodes of a JSON value handed to parse_object
MaxBodyNodes == 3   \* nodes of the manifest main decodes
MaxLenX == 4        \* length of compute_local_average's x
MaxVal == 2         \* largest sample of x; largest spectrogram magnitude
MaxM == 2           \* largest M handed to compute_local_average
MaxT == 3           \* frames of an arbitrary spectrogram
MaxImpulseT == 39   \* frames of a spectrogram holding one impulse

(***************************************************************************)
(* Helpers on sequences.                                                   *)
(***************************************************************************)
Max2(a, b) == IF a >= b THEN a ELSE b
Min2(a, b) == IF a <= b THEN a ELSE b

SeqsUpTo(S, n) == UNION {[1..k -> S] : k \in 0..n}

RECURSIVE SumSeq(_)
SumSeq(s) == IF s = <<>> THEN 0 ELSE Head(s) + SumSeq(Tail(s))

(***************************************************************************)
(* JSON values, as json.loads builds them.                                 *)
(***************************************************************************)
JNull == [tag |-> "null", n |-> 0, s |-> <<>>, keys |-> <<>>, items |-> <<>>]
JBool(b) == [tag |-> "bool", n |-> b, s |-> <<>>, keys |-> <<>>, items |-> <<>>]
JInt(i) == [tag |-> "int", n |-> i, s |-> <<>>, keys |-> <<>>, items |-> <<>>]
\* a non-integer number: json.loads makes it a float
JFloat == [tag |-> "float", n |-> 0, s |-> <<>>, keys |-> <<>>, items |-> <<>>]
JStr(str) == [tag |-> "str", n |-> 0, s |-> str, keys |-> <<>>, items |-> <<>>]
JList(xs) == [tag |-> "list", n |-> 0, s |-> <<>>, keys |-> <<>>, items |-> xs]
\* a dict keeps its keys in insertion order; ks[i] maps to xs[i]
JDict(ks, xs) == [tag |-> "dict", n |-> 0, s |-> <<>>, keys |-> ks, items |-> xs]

Url1 == <<"x", "/", "1">>
Url2 == <<"x", "_", "1">>
Url3 == <<"x", "/", "2">>
Strs == {Url1, Url2}
KeyNames == {<<"a">>, <<"b">>}

Atoms == {JNull, JBool(0), JInt(1), JFloat} \cup {JStr(u) : u \in Strs}

\* key sequences of a dict with k entries: distinct keys, in any order
KeySeqs(k) == {ks \in [1..k -> KeyNames] : \A i, j \in 1..k : ks[i] = ks[j] => i = j}

RECURSIVE ValuesOfSize(_), ItemsOfSize(_)
\* the sequences of values whose sizes add up to n
ItemsOfSize(n) ==
    IF n = 0 THEN {<<>>}
    ELSE UNION {{<<h>> \o t : h \in ValuesOfSize(a), t \in ItemsOfSize(n - a)} : a \in 1..n}
\* the JSON values of exactly n nodes
ValuesOfSize(n) ==
    IF n = 0 THEN {}
    ELSE (IF n = 1 THEN Atoms ELSE {})
         \cup {JList(xs) : xs \in ItemsOfSize(n - 1)}
         \cup UNION {{JDict(ks, xs) : ks \in KeySeqs(Len(xs))} : xs \in ItemsOfSize(n - 1)}

ValuesUpTo(n) == UNION {ValuesOfSize(k) : k \in 1..n}

\* the manifest of the spec's end-to-end scenario:
\* {"a": ["http://x/1.mp3", {"b": "http://x/2.mp3"}]}
Scenario == JDict(<<<<"a">>>>, <<JList(<<JStr(Url1), JDict(<<<<"b">>>>, <<JStr(Url3)>>)>>)>>)

(***************************************************************************)
(* parse_object                                                            *)
(***************************************************************************)
Returned(v) == [exc |-> "", val |-> v]
Raised(e) == [exc |-> e, val |-> <<>>]

\* line 7: the scalars that yield nothing
IsSkipped(o) == o.tag = "null" \/ o.tag \in {"bool", "int"}

\* what `for key in object` yields: a dict's keys, a list's elements
IterLen(o) == IF o.tag = "dict" THEN Len(o.keys) ELSE Len(o.items)

\* object[key] of a dict: the value stored under the key
Lookup(o, key) == o.items[CHOOSE i \in 1..Len(o.keys) : o.keys[i] = key]

\* a variant that recurses into the key of a dict as into an element of a list
ChildKeyItself(o, k) == IF o.tag = "dict" THEN JStr(o.keys[k]) ELSE o.items[k]
\* lines 17-20: what the k-th iteration recurses into
Child(o, k) == IF o.tag = "dict" THEN Lookup(o, o.keys[k]) ELSE o.items[k]

RECURSIVE parse_object(_), Walk(_, _, _)
\* lines 16-21: the loop from its k-th iteration on, objects so far
Walk(o, k, objects) ==
    IF k > IterLen(o) THEN Returned(objects)
    ELSE LET r == parse_object(Child(o, k))
         IN  IF r.exc # "" THEN r ELSE Walk(o, k + 1, objects \o r.val)
parse_object(o) ==
    IF IsSkipped(o) THEN Returned(<<>>)
    ELSE IF o.tag = "str" THEN Returned(<<o.s>>)
    \* `for key in object` on a float: 'float' object is not iterable
    ELSE IF o.tag \notin {"dict", "list"} THEN Raised("TypeError")
    ELSE Walk(o, 1, <<>>)

(***************************************************************************)
(* try_download                                                            *)
(***************************************************************************)
HTTP_OK == 200
Statuses == {HTTP_OK, 404}
\* response.content of a download
Bodies == {<<1, 2>>, <<3>>}
\* what a file that was there before the run holds
OldData == <<9>>

RECURSIVE Replace(_, _, _)
\* str.replace(old, new) for one-character old and new
Replace(str, old, new) ==
    IF str = <<>> THEN <<>>
    ELSE <<IF Head(str) = old THEN new ELSE Head(str)>> \o Replace(Tail(str), old, new)

\* a variant that opens the file under the url as it is
FileNameVerbatim(url) == url
\* line 27: url.replace('/', '_')
FileName(url) == Replace(url, "/", "_")

\* line 26
IsSuccess(r) == r.status = HTTP_OK

\* open(name, 'wb') followed by a write that leaves `data` in the file
Put(fs, name, data) ==
    [n \in DOMAIN fs \cup {name} |-> IF n = name THEN data ELSE fs[n]]

ProperPrefixes(data) == {SubSeq(data, 1, k) : k \in 0..(Len(data) - 1)}

Call(op, arg) == [op |-> op, arg |-> arg]

NoDownload ==
    [url |-> <<>>, got |-> FALSE, status |-> 0, content |-> <<>>,
     opened |-> FALSE, written |-> FALSE]

\* lines 23-30, the whole call: every exception ends in `except: pass`
try_download(url) ==
    \/ \* requests.get raises
       /\ calls' = Append(calls, Call("get", url))
       /\ dl' = [NoDownload EXCEPT !.url = url]
       /\ files' = files
    \/ \E status \in Statuses, content \in Bodies :
         LET r == [url |-> url, got |-> TRUE, status |-> status, content |-> content,
                   opened |-> FALSE, written |-> FALSE]
             name == FileName(url)
         IN  IF ~IsSuccess(r)
             THEN /\ calls' = Append(calls, Call("get", url))
                  /\ dl' = r
                  /\ files' = files
             ELSE /\ calls' = calls \o <<Call("get", url), Call("open", name)>>
                  /\ \/ \* open raises: nothing is created
                        /\ dl' = r
                        /\ files' = files
                     \/ \* the file is created or truncated, then the write raises
                        /\ dl' = [r EXCEPT !.opened = TRUE]
                        /\ \E part \in ProperPrefixes(content) :
                             files' = Put(files, name, part)
                     \/ \* the body is written and the file closed
                        /\ dl' = [r EXCEPT !.opened = TRUE, !.written = TRUE]
                        /\ files' = Put(files, name, content)

(***************************************************************************)
(* main                                                                    *)
(***************************************************************************)
\* stands for jstris_plus_presets, line 33
ManifestUrl == <<"m">>

ManifestDocs == ValuesUpTo(MaxBodyNodes) \cup {Scenario}

NoResponse == [status |-> 0, valid |-> FALSE, doc |-> JNull]

NoveltyIdle ==
    /\ Y = <<>>
    /\ nov = <<>>
    /\ M = 0
    /\ local_average = <<>>
    /\ nov_norm = <<>>

\* the file names a download can produce
FileNames == {Replace(u, "/", "_") : u \in Strs \cup {Url1, Url3}}

Init ==
    /\ pc = "main"
    /\ object = JNull
    /\ parsed = Returned(<<>>)
    /\ response = NoResponse
    /\ res = <<>>
    /\ idx = 1
    /\ \E old \in SUBSET FileNames :
         /\ Cardinality(old) <= 1
         /\ files = [n \in old |-> OldData]
    /\ calls = <<>>
    /\ cause = ""
    /\ dl = NoDownload
    /\ NoveltyIdle

Abort(e) ==
    /\ pc' = "aborted"
    /\ cause' = e

\* line 34: requests.get(jstris_plus_presets)
Fetch ==
    /\ pc = "main"
    /\ calls' = Append(calls, Call("get", ManifestUrl))
    /\ \/ /\ Abort("RequestException")
          /\ UNCHANGED response
       \/ /\ \E status \in Statuses :
               \/ \E doc \in ManifestDocs :
                    response' = [status |-> status, valid |-> TRUE, doc |-> doc]
               \/ response' = [status |-> status, valid |-> FALSE, doc |-> JNull]
          /\ pc' = "fetched"
          /\ UNCHANGED cause
    /\ UNCHANGED <<object, parsed, res, idx, files, dl, nvars>>

\* a variant with the assertion stripped
AssertHoldsAlways(r) == TRUE
\* line 36: the condition of the assert
AssertHolds(r) == r.status = HTTP_OK

\* line 36
AssertStatus ==
    /\ pc = "fetched"
    /\ IF AssertHolds(response)
       THEN pc' = "asserted" /\ UNCHANGED cause
       ELSE Abort("AssertionError")
    /\ UNCHANGED <<object, parsed, response, res, idx, files, calls, dl, nvars>>

\* line 37: res = parse_object(response.json())
Harvest ==
    /\ pc = "asserted"
    /\ IF ~response.valid
       THEN /\ calls' = Append(calls, Call("json", <<>>))
            /\ Abort("JSONDecodeError")
            /\ UNCHANGED <<object, parsed, res>>
       ELSE /\ calls' = calls \o <<Call("json", <<>>), Call("parse_object", <<>>)>>
            /\ object' = response.doc
            /\ parsed' = parse_object(response.doc)
            /\ IF parsed'.exc # ""
               THEN Abort(parsed'.exc) /\ UNCHANGED res
               ELSE /\ res' = parsed'.val
                    /\ pc' = "loop"
                    /\ UNCHANGED cause
    /\ UNCHANGED <<response, idx, files, dl, nvars>>

\* a variant of the loop body in which a failed GET is not caught
DownloadNextUncaught ==
    /\ pc = "loop"
    /\ idx <= Len(res)
    /\ \/ /\ try_download(res[idx])
          /\ dl'.got
          /\ idx' = idx + 1
          /\ UNCHANGED <<pc, cause>>
       \/ /\ calls' = Append(calls, Call("get", res[idx]))
          /\ dl' = [NoDownload EXCEPT !.url = res[idx]]
          /\ Abort("RequestException")
          /\ UNCHANGED <<idx, files>>
    /\ UNCHANGED <<object, parsed, response, res, nvars>>
\* lines 38-39: one iteration of `for url in res: try_download(url)`
DownloadNext ==
    /\ pc = "loop"
    /\ idx <= Len(res)
    /\ try_download(res[idx])
    /\ idx' = idx + 1
    /\ UNCHANGED <<pc, object, parsed, response, res, cause, nvars>>

\* the loop is exhausted and main returns
Finish ==
    /\ pc = "loop"
    /\ idx > Len(res)
    /\ pc' = "done"
    /\ UNCHANGED <<hvars, nvars>>

Next == Fetch \/ AssertStatus \/ Harvest \/ DownloadNext \/ Finish

Spec == Init /\ [][Next]_vars

\* the interpreter runs the script on: every call made returns or raises
FairSpec == Spec /\ WF_vars(Next)

(***************************************************************************)
(* parse_object on its own: every value of at most MaxNodes nodes, and the *)
(* spec's scenario.                                                        *)
(***************************************************************************)
HarvesterIdle ==
    /\ response = NoResponse
    /\ res = <<>>
    /\ idx = 1
    /\ files = [n \in {} |-> OldData]
    /\ calls = <<>>
    /\ cause = ""
    /\ dl = NoDownload

ParseInit ==
    /\ pc = "parse_call"
    /\ object \in ValuesUpTo(MaxNodes) \cup {Scenario}
    /\ parsed = Returned(<<>>)
    /\ HarvesterIdle
    /\ NoveltyIdle

\* lines 6-21: one call of parse_object
ParseCall ==
    /\ pc = "parse_call"
    /\ parsed' = parse_object(object)
    /\ pc' = "parse_returned"
    /\ UNCHANGED <<object, response, res, idx, files, calls, cause, dl, nvars>>

ParseSpec == ParseInit /\ [][ParseCall]_vars

(***************************************************************************)
(* The string leaves of a value, stated on paths: a path is the sequence   *)
(* of positions taken from the root, the position in a dict being that of  *)
(* the key in insertion order.                                             *)
(***************************************************************************)
RECURSIVE PathsOf(_)
PathsOf(o) ==
    {<<>>} \cup UNION {{<<i>> \o p : p \in PathsOf(o.items[i])} : i \in 1..Len(o.items)}

RECURSIVE At(_, _)
At(o, p) == IF p = <<>> THEN o ELSE At(o.items[Head(p)], Tail(p))

StringPaths(o) == {p \in PathsOf(o) : At(o, p).tag = "str"}

NoFloat(o) == \A p \in PathsOf(o) : At(o, p).tag # "float"

\* p comes before q in the traversal
Before(p, q) ==
    \E k \in 1..Min2(Len(p), Len(q)) :
        /\ p[k] < q[k]
        /\ \A j \in 1..(k - 1) : p[j] = q[j]

Rank(o, p) == 1 + Cardinality({q \in StringPaths(o) : Before(q, p)})

\* C1: on a value built from mappings, sequences, strings, integers,
\* booleans and null, parse_object returns exactly the strings at the string
\* leaves reached through mapping values and sequence elements, one per
\* occurrence, in traversal order; no key and no other value is returned.
C1_Harvest ==
    (pc = "parse_returned" /\ NoFloat(object)) =>
        /\ parsed.exc = ""
        /\ Len(parsed.val) = Cardinality(StringPaths(object))
        /\ \A p \in StringPaths(object) : parsed.val[Rank(object, p)] = At(object, p).s

\* the spec's scenario yields its two strings in order, the keys "a", "b" dropped
C1_Witness ==
    /\ pc = "parse_returned"
    /\ object = Scenario
    /\ parsed = Returned(<<Url1, Url3>>)

\* a value with no string leaf yields the empty list; a repeated string is kept
C1_WitnessEdge ==
    /\ pc = "parse_returned"
    /\ object = JList(<<JStr(Url1), JStr(Url1)>>)
    /\ parsed = Returned(<<Url1, Url1>>)

\* C2: every null, boolean or numeric leaf, integer or not, contributes
\* nothing and parse_object returns normally.
C2_NumericLeavesSkipped ==
    pc = "parse_returned" =>
        /\ parsed.exc = ""
        /\ Len(parsed.val) = Cardinality(StringPaths(object))

(***************************************************************************)
(* Claims on try_download and main.                                        *)
(***************************************************************************)
\* name is url with every "/" replaced by "_"
SlashesReplaced(url, name) ==
    /\ Len(name) = Len(url)
    /\ \A i \in 1..Len(url) : name[i] = (IF url[i] = "/" THEN "_" ELSE url[i])
    /\ \A i \in 1..Len(name) : name[i] # "/"

\* the files that differ between two directories
Touched(fs, gs) ==
    {n \in DOMAIN fs \cup DOMAIN gs :
        n \notin DOMAIN fs \/ n \notin DOMAIN gs \/ fs[n] # gs[n]}

\* a step of the loop of main: one call of try_download
IsDownloadStep == pc = "loop" /\ idx' = idx + 1

\* what holds of every call of try_download, whether the save completes or not
DownloadFrame ==
    LET url == res[idx]
        ok == dl'.got /\ dl'.status = 200
    IN  /\ dl'.url = url
        /\ dl'.opened => ok
        /\ ~ok => files' = files
        /\ \A n \in Touched(files, files') : dl'.opened /\ SlashesReplaced(url, n)
        /\ DOMAIN files \subseteq DOMAIN files'

\* C3 as stated: a file is written only after a 200, under the url with "/"
\* replaced by "_", and the file then holds the response body; otherwise no
\* file is created or modified.
C3_AsStated ==
    [][IsDownloadStep =>
        /\ DownloadFrame
        /\ dl'.opened =>
             \E n \in DOMAIN files' :
                 SlashesReplaced(res[idx], n) /\ files'[n] = dl'.content]_vars

\* C3 as amended: the file holds the response body when the write completes;
\* when the write raises the file is left holding a proper prefix of it.
C3_SaveOn200 ==
    [][IsDownloadStep =>
        /\ DownloadFrame
        /\ dl'.opened =>
             \E n \in DOMAIN files' :
                 /\ SlashesReplaced(res[idx], n)
                 /\ dl'.written => files'[n] = dl'.content
                 /\ ~dl'.written =>
                      /\ Len(files'[n]) < Len(dl'.content)
                      /\ files'[n] = SubSeq(dl'.content, 1, Len(files'[n]))]_vars

\* the first download, of "x/1", came back 200 and was saved whole as "x_1"
C3_Witness ==
    /\ pc = "loop"
    /\ idx = 2
    /\ dl.url = Url1
    /\ dl.status = 200
    /\ dl.written
    /\ dl.content = <<1, 2>>
    /\ files = [n \in {<<"x", "_", "1">>} |-> <<1, 2>>]

FetchReturned == response # NoResponse

\* C4: a manifest response that is not a 200 ends the run at the assertion:
\* parse_object is not called, nothing is downloaded, no file is written.
C4_AbortBeforeParse ==
    (FetchReturned /\ response.status # 200 /\ pc # "fetched") =>
        /\ pc = "aborted"
        /\ cause = "AssertionError"
        /\ calls = <<Call("get", ManifestUrl)>>
        /\ parsed = Returned(<<>>) /\ res = <<>>
        /\ dl = NoDownload
        /\ \A n \in DOMAIN files : files[n] = OldData

\* a 404 carrying a manifest full of strings: aborted, the old file untouched
C4_Witness ==
    /\ pc = "aborted"
    /\ response.status = 404
    /\ response.valid
    /\ response.doc = JList(<<JStr(Url1), JStr(Url2)>>)
    /\ DOMAIN files # {}

IsGet(c) == c.op = "get"
\* the urls try_download asked for, in order (the first GET is the manifest's)
Attempts == LET gets == SelectSeq(calls, IsGet)
            IN  [i \in 1..(Len(gets) - 1) |-> gets[i + 1].arg]

Harvested ==
    /\ \E i \in 1..Len(calls) : calls[i].op = "parse_object"
    /\ parsed.exc = ""

C5_Progress ==
    Harvested =>
        /\ pc \in {"loop", "done"}
        /\ cause = ""
        /\ idx \in 1..(Len(res) + 1)
        /\ Attempts = SubSeq(res, 1, idx - 1)
        /\ pc = "done" => Attempts = res

\* C5: once the manifest is harvested main makes one attempt per occurrence
\* of the harvested list, in order; no failed attempt stops the run or is
\* repeated, and main returns.
C5_OneAttemptEach ==
    /\ []C5_Progress
    /\ (pc = "loop") ~> (pc = "done")

\* two attempts: the first failed without a file, the second saved its body
C5_Witness ==
    /\ pc = "done"
    /\ Len(res) = 2
    /\ Len(calls) = 6
    /\ calls[4].op = "get" /\ calls[5].op = "get" /\ calls[6].op = "open"
    /\ dl.written

\* C6: the only hard failure is a manifest fetch that does not return a 200:
\* a run whose fetch returned a 200 never ends abnormally, whatever the
\* manifest.  Stated here for the bodies that decode to a manifest, the
\* claim's own case, which leaves the fetch that raises and the body that is
\* no JSON aside.
C6_OnlyHardFailure ==
    pc = "aborted" => ~(FetchReturned /\ response.status = 200 /\ response.valid)

(***************************************************************************)
(* graph_fft.py: compute_local_average                                     *)
(***************************************************************************)
Frac(n, d) == [num |-> n, den |-> d]

\* x[a:b] for 0 <= a and b <= len(x)
Slice(x, a, b) == SubSeq(x, a + 1, b)

\* a variant whose window stops one sample early
WindowEndShort(m, HalfWidth, L) == Min2(m + HalfWidth, L)
\* line 23: b, the exclusive end of the window
WindowEnd(m, HalfWidth, L) == Min2(m + HalfWidth + 1, L)

\* lines 19-25; the result's entry for the 0-based m is at m + 1
compute_local_average(x, HalfWidth) ==
    LET L == Len(x)
    IN  [i \in 1..L |->
            LET m == i - 1
                a == Max2(m - HalfWidth, 0)
                b == WindowEnd(m, HalfWidth, L)
            IN  Frac(1 * SumSeq(Slice(x, a, b)), 2 * HalfWidth + 1)]

(***************************************************************************)
(* graph_fft.py: test_spectral_onset, lines 41-54                          *)
(***************************************************************************)
Fs == 44100
H == 256
\* M_sec = 0.1 is 1 / M_secInv
M_secInv == 10
\* line 50: int(np.ceil(M_sec * Fs_nov)) with Fs_nov = Fs / H
M_onset == (Fs + M_secInv * H - 1) \div (M_secInv * H)

\* the frequency bins of the model (the program's STFT has 1 + N/2 of them)
Bins == 1..2

Frames(spec) == Len(spec[1])

\* a variant that takes the difference backwards
np_diff_reversed(row) == [n \in 1..(Len(row) - 1) |-> row[n] - row[n + 1]]
\* line 42: np.diff(Y, n=1) on one row (the last axis is time)
np_diff(row) == [n \in 1..(Len(row) - 1) |-> row[n + 1] - row[n]]

\* line 43: Y_diff[Y_diff < 0] = 0
Rectify(row) == [n \in 1..Len(row) |-> IF row[n] < 0 THEN 0 ELSE row[n]]

RECURSIVE SumBins(_, _, _)
SumBins(rows, n, k) == IF k = 0 THEN 0 ELSE rows[k][n] + SumBins(rows, n, k - 1)

\* line 44: np.sum(Y_diff, axis=0)
np_sum_axis0(rows) ==
    [n \in 1..Len(rows[1]) |-> SumBins(rows, n, Cardinality(DOMAIN rows))]

\* a variant that pads in front
PadFront(s) == <<0>> \o s
\* line 45: np.concatenate((nov, np.array([0])))
Pad(s) == s \o <<0>>

\* lines 42-45
Novelty(spec) ==
    LET Y_diff == [k \in DOMAIN spec |-> Rectify(np_diff(spec[k]))]
    IN  Pad(np_sum_axis0(Y_diff))

\* line 52: nov - local_average
Subtract(x, avg) ==
    [i \in 1..Len(x) |-> Frac(x[i] * avg[i].den - avg[i].num, avg[i].den)]

\* a variant that keeps the negative entries
ClampNone(s) == s
\* line 53: nov_norm[nov_norm < 0] = 0
Clamp(s) == [i \in 1..Len(s) |-> IF s[i].num < 0 THEN Frac(0, 1) ELSE s[i]]

FracLess(p, q) == p.num * q.den < q.num * p.den

\* max(nov_norm) of a non-empty sequence
MaxOf(s) == s[CHOOSE i \in 1..Len(s) : \A j \in 1..Len(s) : ~FracLess(s[i], s[j])]

\* line 54: nov_norm / max(nov_norm); a zero divisor gives den = 0 (nan)
DivideBy(s, d) == [i \in 1..Len(s) |-> Frac(s[i].num * d.den, s[i].den * d.num)]

HarvesterOff ==
    /\ object = JNull
    /\ parsed = Returned(<<>>)
    /\ HarvesterIdle

\* lines 52-54
Normalize ==
    /\ pc = "averaged"
    /\ IF nov = <<>>
       THEN \* max() of an empty sequence raises ValueError
            /\ pc' = "value_error"
            /\ UNCHANGED nov_norm
       ELSE /\ pc' = "normalized"
            /\ LET clamped == Clamp(Subtract(nov, local_average))
               IN  nov_norm' = DivideBy(clamped, MaxOf(clamped))
    /\ UNCHANGED <<hvars, Y, nov, M, local_average>>

(***************************************************************************)
(* compute_local_average and the normalization on an arbitrary x and M.    *)
(***************************************************************************)
AvgInit ==
    /\ pc = "avg_call"
    /\ HarvesterOff
    /\ Y = <<>>
    /\ nov \in SeqsUpTo(-1..MaxVal, MaxLenX)
    /\ M \in 0..MaxM
    /\ local_average = <<>>
    /\ nov_norm = <<>>

\* one call compute_local_average(nov, M)
AvgCall ==
    /\ pc = "avg_call"
    /\ local_average' = compute_local_average(nov, M)
    /\ pc' = "averaged"
    /\ UNCHANGED <<hvars, Y, nov, M, nov_norm>>

AvgSpec == AvgInit /\ [][AvgCall \/ Normalize]_vars

(***************************************************************************)
(* test_spectral_onset from the compressed spectrogram on.                 *)
(***************************************************************************)
\* the spectrograms with energy in frame p alone
Impulses ==
    UNION {{[k \in Bins |-> [n \in 1..T |-> IF n = p THEN e[k] ELSE 0]] :
               p \in 1..T,
               e \in {f \in [Bins -> 0..MaxVal] : \E k \in Bins : f[k] > 0}} :
           T \in 1..MaxImpulseT}

NovInit ==
    /\ pc = "onset"
    /\ HarvesterOff
    /\ \/ \E T \in 1..MaxT : Y \in [Bins -> [1..T -> 0..MaxVal]]
       \/ Y \in Impulses
    /\ nov = <<>>
    /\ M = 0
    /\ local_average = <<>>
    /\ nov_norm = <<>>

\* lines 42-45
ComputeNovelty ==
    /\ pc = "onset"
    /\ nov' = Novelty(Y)
    /\ pc' = "novelty"
    /\ UNCHANGED <<hvars, Y, M, local_average, nov_norm>>

\* lines 49-51
OnsetAverage ==
    /\ pc = "novelty"
    /\ M' = M_onset
    /\ local_average' = compute_local_average(nov, M')
    /\ pc' = "averaged"
    /\ UNCHANGED <<hvars, Y, nov, nov_norm>>

NovSpec == NovInit /\ [][ComputeNovelty \/ OnsetAverage \/ Normalize]_vars

(***************************************************************************)
(* Claims on the novelty computation.                                      *)
(***************************************************************************)
RECURSIVE SetSum(_, _)
\* the sum of f over the finite set S
SetSum(S, f) ==
    IF S = {} THEN 0
    ELSE LET c == CHOOSE c \in S : TRUE IN f[c] + SetSum(S \ {c}, f)

NoveltyDone == pc \in {"novelty", "averaged", "normalized"}

\* the rise of bin k from the 0-based frame n to frame n + 1, 0 when it falls
Rise(k, n) == Max2(Y[k][n + 2] - Y[k][n + 1], 0)

Silent == \A k \in Bins : \A n \in 1..Frames(Y) : Y[k][n] = Y[k][1]

\* C7: the raw novelty has one entry per frame; entry n < T-1 is the sum
\* over the bins of max(Y[k][n+1] - Y[k][n], 0), the last entry is the pad 0;
\* so no entry is negative, and all are 0 when every frame is the same.
C7_RawNovelty ==
    NoveltyDone =>
        LET T == Frames(Y)
        IN  /\ Len(nov) = T
            /\ \A n \in 0..(T - 2) : nov[n + 1] = SetSum(Bins, [k \in Bins |-> Rise(k, n)])
            /\ nov[T] = 0
            /\ \A i \in 1..T : nov[i] >= 0
            /\ Silent => \A i \in 1..T : nov[i] = 0

\* both bins move, one up and one down, then both up
C7_Witness ==
    /\ pc = "novelty"
    /\ Y = [k \in Bins |-> IF k = 1 THEN <<0, 2, 2>> ELSE <<1, 0, 2>>]
    /\ nov = <<2, 2, 0>>

\* a spectrogram that is silent but not zero
C7_WitnessSilent ==
    /\ pc = "novelty"
    /\ Y = [k \in Bins |-> <<1, 1, 1>>]
    /\ nov = <<0, 0, 0>>

\* the 1-based frame p alone holds energy
ImpulseAt(p) ==
    /\ p \in 1..Frames(Y)
    /\ \E k \in Bins : Y[k][p] > 0
    /\ \A k \in Bins : \A n \in 1..Frames(Y) : n # p => Y[k][n] = 0

IsNan(f) == f.den = 0
IsZero(f) == f.den # 0 /\ f.num = 0
IsOne(f) == f.den # 0 /\ f.num = f.den

\* C8 as stated: with energy in frame p alone, the normalized novelty has
\* its maximum at frame p and is zero at every other frame.  Stated here for
\* an impulse with silent frames on both sides.
C8_AsStated ==
    pc = "normalized" =>
        \A p \in 2..(Frames(Y) - 1) :
            ImpulseAt(p) =>
                /\ IsOne(nov_norm[p])
                /\ \A i \in 1..Len(nov_norm) : i # p => IsZero(nov_norm[i])

\* C8 as amended: the maximum, 1, is at the frame before the impulse, p - 1,
\* every other frame is exactly 0; an impulse in the first frame leaves the
\* raw novelty all zero and the normalized novelty all nan.
C8_PeakBeforeImpulse ==
    pc = "normalized" =>
        \A p \in 1..Frames(Y) :
            ImpulseAt(p) =>
                /\ Len(nov_norm) = Frames(Y)
                /\ p > 1 =>
                     /\ IsOne(nov_norm[p - 1])
                     /\ \A i \in 1..Len(nov_norm) : i # p - 1 => IsZero(nov_norm[i])
                /\ p = 1 =>
                     /\ \A i \in 1..Len(nov) : nov[i] = 0
                     /\ \A i \in 1..Len(nov_norm) : IsNan(nov_norm[i])

\* an impulse in the middle of a spectrogram longer than the window 2M+1
C8_Witness ==
    /\ pc = "normalized"
    /\ Frames(Y) = MaxImpulseT
    /\ ImpulseAt(M_onset + 2)
    /\ M = M_onset
    /\ IsOne(nov_norm[M_onset + 1])
    /\ IsZero(nov_norm[M_onset + 2])

\* the samples of x the window of the 0-based m covers
Window(m, HalfWidth, L) ==
    {i \in 0..(L - 1) : Max2(m - HalfWidth, 0) <= i /\ i <= Min2(m + HalfWidth, L - 1)}

\* C9: compute_local_average(x, M) returns len(x) entries; (2M+1) times the
\* entry m is the sum of x over max(m-M, 0) <= i <= min(m+M, L-1); x is left
\* as it was.
C9_LocalAverage ==
    [][(pc = "avg_call" /\ pc' = "averaged") =>
        /\ nov' = nov
        /\ Len(local_average') = Len(nov)
        /\ \A m \in 0..(Len(nov) - 1) :
             LET r == local_average'[m + 1]
             IN  /\ r.den # 0
                 /\ (2 * M + 1) * r.num =
                      r.den * SetSum(Window(m, M, Len(nov)), [i \in 0..(Len(nov) - 1) |-> nov[i + 1]])]_vars

\* M = 1 on four samples: clipped windows at both ends, whole ones between
C9_Witness ==
    /\ pc = "averaged"
    /\ M = 1
    /\ nov = <<1, 2, 0, 2>>
    /\ local_average = <<Frac(3, 3), Frac(3, 3), Frac(4, 3), Frac(2, 3)>>

NonNegative(s) == \A i \in 1..Len(s) : s[i] >= 0
AllZero(s) == \A i \in 1..Len(s) : s[i] = 0

\* C10: for M >= 1 and a raw novelty that is non-negative and ends in the
\* pad 0, the divisor of the normalization is zero (the result nan) exactly
\* when the novelty is all zero; otherwise every normalized value lies in
\* [0, 1] and 1 is attained.
C10_Normalized ==
    (pc = "normalized" /\ M >= 1 /\ NonNegative(nov) /\ nov[Len(nov)] = 0) =>
        /\ Len(nov_norm) = Len(nov)
        /\ (\E i \in 1..Len(nov_norm) : IsNan(nov_norm[i])) <=> AllZero(nov)
        /\ ~AllZero(nov) =>
             /\ \A i \in 1..Len(nov_norm) :
                  /\ nov_norm[i].den > 0
                  /\ 0 <= nov_norm[i].num
                  /\ nov_norm[i].num <= nov_norm[i].den
             /\ \E i \in 1..Len(nov_norm) : IsOne(nov_norm[i])

\* a plateau as wide as the window: only its last sample exceeds its average
C10_Witness ==
    /\ pc = "normalized"
    /\ M = 1
    /\ nov = <<2, 2, 2, 0>>
    /\ IsZero(nov_norm[2])
    /\ IsOne(nov_norm[3])

=============================================================================
